---------------------------- MODULE Spec2Model ----------------------------
(***************************************************************************)
(* State-machine model of the ride vehicle editor's VehicleViewModel       *)
(* (src/src/viewmodels/vehicleViewModel.ts) together with the host park    *)
(* it observes.                                                            *)
(*                                                                         *)
(* Conventions                                                             *)
(*   - a nullable tuple store ([T, number] | null) is a sequence: <<>> is  *)
(*     null and <<entity, index>> a selection; indices are 0-based as in   *)
(*     the code, TLA+ sequences 1-based, hence items[idx + 1];             *)
(*   - a ride entity is its ride id, a vehicle entity its car id, a train  *)
(*     the sequence of its car ids;                                        *)
(*   - `number | null' (the spacing store) is <<>> or <<n>>;               *)
(*   - store.set notifies its listeners synchronously unless the value is  *)
(*     identical (!==): a fresh tuple or array always notifies, null over  *)
(*     null never does.                                                    *)
(***************************************************************************)
EXTENDS Integers, Sequences, FiniteSets, TLC

VARIABLES
    vm,      \* the VehicleViewModel object: one record field per store/field
    world,   \* the host park: rides, spawned trains, car data
    host,    \* the host's live event subscriptions
    calls,   \* the setter invocations made by the last handler
    last,    \* the last handler that ran and its arguments
    lifecycle,  \* the last of _open and _close that was called ("none" at first)
    editor,  \* the VehicleEditorWindow, its widgets and the module's clipboard
    prefs,   \* the host's shared storage and the stores loaded from it
    rideEdit, \* the ride tab: the ride of its view-model, that ride's data in
              \* the park, and the player's ride_properties permission
    spinner, \* a SpinnerComponent and its widget
    viewport \* the ViewportComponent, its widget and its tick subscriptions

\* The state outside the view-model, its park and its subscriptions.
ui == << editor, prefs, rideEdit, spinner, viewport >>

vars == <<vm, world, host, calls, last, lifecycle, ui>>

NULL == <<>>

-----------------------------------------------------------------------------
(* Bounds of the model                                                     *)

MaxRides == 2
MaxTrains == 2

RideIds == 1..MaxRides

-----------------------------------------------------------------------------
(* The host park (the plugin API's entity queries)                         *)

\* Number of cars of train t (0-based) of ride r.
CarsIn(r, t) == 1 + ((r + t) % 2)

\* Entity id of car v (0-based) of train t (0-based) of ride r.
CarId(r, t, v) == (100 * r) + (10 * t) + v

\* Car.ride: the ride a car entity belongs to.
CarRide(c) == c \div 100

\* RideTrain._vehicles(): the vehicles of a train.
trainVehicles(train) == train

\* ParkRide._trains(): the trains currently spawned on a ride.
rideTrains(w, r) ==
    [t \in 1..w.numTrains[r] |->
        [v \in 1..CarsIn(r, t - 1) |-> CarId(r, t - 1, v - 1)]]

\* getAllRides(): the rides of the park, in list order.
getAllRides(w) == w.park

\* getAllRideTypes(): ids of the ride objects loaded in the park.
getAllRideTypes(w) == <<1, 2>>

\* ParkRide._refresh(): whether the ride still exists.
rideRefresh(w, r) == \E i \in 1..Len(w.park) : w.park[i] = r

\* RideTrain._refresh(): whether the train's cars still exist.
trainRefresh(w, train) ==
    /\ Len(train) > 0
    /\ rideRefresh(w, CarRide(train[1]))
    /\ \E t \in 1..w.numTrains[CarRide(train[1])] :
          rideTrains(w, CarRide(train[1]))[t] = train

\* The car entities that currently exist in the park.
WorldCars(w) ==
    UNION { { rideTrains(w, w.park[i])[t][v] :
                v \in 1..CarsIn(w.park[i], t - 1) } :
            <<i, t>> \in { p \in (1..Len(w.park)) \X (1..MaxTrains) :
                             p[2] <= w.numTrains[w.park[p[1]]] } }

StatusOf == <<"waiting_for_passengers", "travelling", "stopping">>

\* map.getEntity(id): the car entity as the host holds it now.  The dynamic
\* fields follow the simulation (w.dyn), the appearance fields the last
\* external edit (w.paint).
Car(w, c) ==
    [ id |-> c,
      ride |-> CarRide(c),
      rideObject |-> 1 + ((c + w.paint) % 2),
      vehicleObject |-> (c + w.dyn) % 3,
      numSeats |-> 1000 + (2 * c) + w.paint,
      mass |-> 2000 + (3 * c) + w.dyn,
      poweredAcceleration |-> 3000 + (2 * c) + w.paint,
      poweredMaxSpeed |-> 4000 + (2 * c) + w.paint,
      trackProgress |-> 5000 + (3 * c) + (w.dyn * (1 + (c % 2))),
      x |-> 6000 + (3 * c) + w.dyn,
      y |-> 7000 + (3 * c) + w.dyn,
      z |-> 8000 + (3 * c) + w.dyn,
      colours |-> [ body |-> 10 + (2 * c) + w.paint,
                    trim |-> 20 + (2 * c) + w.paint,
                    tertiary |-> 30 + (2 * c) + w.paint ],
      status |-> StatusOf[((c + w.dyn) % 3) + 1] ]

\* getSpacingToPrecedingVehicle(train, car, index): the distance to the
\* vehicle in front, or null when there is none or it cannot be resolved.
getSpacingToPrecedingVehicle(w, train, car, index) ==
    IF index = 0 \/ index >= Len(train) \/ w.dyn = 2
    THEN NULL
    ELSE << car.trackProgress - Car(w, train[index]).trackProgress >>

-----------------------------------------------------------------------------
(* Pure helpers of the view-model                                          *)

\* findIndex(items, predicate on the id): 0-based index, or -1 for null.
findIndex(items, id) ==
    IF \E i \in 1..Len(items) : items[i] = id
    THEN (CHOOSE i \in 1..Len(items) :
            items[i] = id /\ \A j \in 1..(i - 1) : items[j] # id) - 1
    ELSE -1

\* A reselection that forgets the previous index.
updateSelectionOrNullFirst(previous, items) ==
    IF Len(items) > 0 THEN << items[1], 0 >> ELSE NULL

\* updateSelectionOrNull(value, items)
updateSelectionOrNull(previous, items) ==
    IF Len(items) > 0
    THEN LET selectedIdx ==
                 IF previous # NULL /\ previous[2] < Len(items)
                 THEN previous[2] ELSE 0
         IN  << items[selectedIdx + 1], selectedIdx >>
    ELSE NULL

isMoving(status) ==
    status \in { "arriving", "crashing", "departing", "moving_to_end_of_station",
                 "travelling_boat", "travelling_cable_lift", "travelling_dodgems",
                 "travelling" }

\* One span of a single vehicle for each 0-based index lo..hi of a train.
SpansOf(train, lo, hi) ==
    [ i \in 1..(IF hi >= lo THEN (hi - lo) + 1 ELSE 0) |-> << train[lo + i], 1 >> ]

Min(a, b) == IF a <= b THEN a ELSE b

\* The spans one train contributes for a per-train mode (0..3) and index k.
TrainTargets(mode, train, k) ==
    CASE mode = 0 -> IF Len(train) > 0 THEN << << train[1], Len(train) >> >> ELSE << >>
      [] mode = 1 -> SpansOf(train, 0, Min(k, Len(train)) - 1)
      [] mode = 2 -> SpansOf(train, k + 1, Len(train) - 1)
      [] OTHER    -> SpansOf(train, k, Len(train) - 1)

RECURSIVE AllTrainTargets(_, _, _)
AllTrainTargets(mode, trainList, k) ==
    IF trainList = << >> THEN << >>
    ELSE TrainTargets(mode, Head(trainList), k)
            \o AllTrainTargets(mode, Tail(trainList), k)

RECURSIVE SameIndexTargets(_, _)
SameIndexTargets(trainList, k) ==
    IF trainList = << >> THEN << >>
    ELSE SpansOf(Head(trainList), k, Min(k, Len(Head(trainList)) - 1))
            \o SameIndexTargets(Tail(trainList), k)

\* getTargets(option, ride, train, vehicle): the ordered target spans of a
\* copy option.  rideTrainList stands for ride[0]._trains() of the selected
\* ride (empty when no ride is selected).
getTargets(option, rideTrainList, train, vehicle) ==
    IF vehicle = NULL \/ train = NULL THEN << >>
    ELSE CASE option \in 0..3 -> TrainTargets(option, train[1], vehicle[2])
           [] option \in 4..6 -> AllTrainTargets(option - 4, rideTrainList, vehicle[2])
           [] option = 7      -> SameIndexTargets(rideTrainList, vehicle[2])
           [] OTHER           -> AllTrainTargets(3, rideTrainList, vehicle[2])

-----------------------------------------------------------------------------
(* The field mirror                                                        *)

\* _updateDynamicDataFromCar(car, index)
updateDynamicDataFromCar(m, w, car, index) ==
    LET m1 == [ m EXCEPT !.variant = car.vehicleObject,
                         !.mass = car.mass,
                         !.trackProgress = car.trackProgress,
                         !.x = car.x,
                         !.y = car.y,
                         !.z = car.z ]
        train == m1.selectedTrain
    IN  IF train # NULL
        THEN [ m1 EXCEPT
                 !.isMoving = isMoving(Car(w, train[1][1]).status),
                 !.spacing = getSpacingToPrecedingVehicle(w, train[1], car, index) ]
        ELSE m1

\* _updateVehicleInfo(vehicle, index)
updateVehicleInfo(m, w, vehicle, index) ==
    LET car == Car(w, vehicle)
        types == m.rideTypes
        typeIdx == findIndex(types, car.rideObject)
        colours == car.colours
        m1 == [ m EXCEPT
                  !.type = IF typeIdx = -1 THEN NULL ELSE << types[typeIdx + 1], typeIdx >>,
                  !.seats = car.numSeats,
                  !.poweredAcceleration = car.poweredAcceleration,
                  !.poweredMaxSpeed = car.poweredMaxSpeed,
                  !.primaryColour = colours.body,
                  !.secondaryColour = colours.trim,
                  !.tertiaryColour = colours.tertiary ]
    IN  updateDynamicDataFromCar(m1, w, car, index)

-----------------------------------------------------------------------------
(* The selection stores and their subscribers                              *)

\* A vehicle store whose subscriber pulls the dynamic fields only.
setSelectedVehicleDynamic(m, w, v) ==
    IF v = NULL /\ m.selectedVehicle = NULL THEN m
    ELSE LET m1 == [ m EXCEPT !.selectedVehicle = v ]
             m2 == [ m1 EXCEPT !.copyTargets =
                       getTargets(m1.copyTargetOption, m1.trains, m1.selectedTrain, v) ]
         IN  IF v # NULL /\ m2.isOpen
             THEN updateDynamicDataFromCar(m2, w, Car(w, v[1]), v[2])
             ELSE m2

\* _selectedVehicle.set(v): the _copyTargets compute store and the
\* constructor's subscriber run when the store notifies.
setSelectedVehicle(m, w, v) ==
    IF v = NULL /\ m.selectedVehicle = NULL THEN m
    ELSE LET m1 == [ m EXCEPT !.selectedVehicle = v ]
             m2 == [ m1 EXCEPT !.copyTargets =
                       getTargets(m1.copyTargetOption, m1.trains, m1.selectedTrain, v) ]
         IN  IF v # NULL /\ m2.isOpen
             THEN updateVehicleInfo(m2, w, v[1], v[2])
             ELSE m2

\* _vehicles (compute store) takes a new array; its subscriber reselects.
setVehicles(m, w, items) ==
    LET m1 == [ m EXCEPT !.vehicles = items ]
    IN  setSelectedVehicle(m1, w, updateSelectionOrNull(m1.selectedVehicle, items))

\* A train store whose vehicle list is not recomputed.
setSelectedTrainOnly(m, w, t) == [ m EXCEPT !.selectedTrain = t ]

\* _selectedTrain.set(t): _vehicles is recomputed when the store notifies.
setSelectedTrain(m, w, t) ==
    IF t = NULL /\ m.selectedTrain = NULL THEN m
    ELSE LET m1 == [ m EXCEPT !.selectedTrain = t ]
         IN  setVehicles(m1, w, IF t # NULL THEN trainVehicles(t[1]) ELSE << >>)

\* _trains (compute store) takes a new array; its subscriber reselects.
setTrains(m, w, items) ==
    LET m1 == [ m EXCEPT !.trains = items ]
    IN  setSelectedTrain(m1, w, updateSelectionOrNull(m1.selectedTrain, items))

\* A ride store whose train list is not recomputed.
setSelectedRideOnly(m, w, r) == [ m EXCEPT !.selectedRide = r ]

\* _selectedRide.set(r): _trains is recomputed when the store notifies.
setSelectedRide(m, w, r) ==
    IF r = NULL /\ m.selectedRide = NULL THEN m
    ELSE LET m1 == [ m EXCEPT !.selectedRide = r ]
         IN  setTrains(m1, w, IF r # NULL THEN rideTrains(w, r[1]) ELSE << >>)

\* _rides.set(items): the constructor's subscriber reselects the ride.
setRides(m, w, items) ==
    LET m1 == [ m EXCEPT !.rides = items ]
    IN  setSelectedRide(m1, w, updateSelectionOrNull(m1.selectedRide, items))

\* _copyTargetOption.set(o): _copyTargets is recomputed when the value changes.
setCopyTargetOption(m, o) ==
    IF o = m.copyTargetOption THEN m
    ELSE [ m EXCEPT !.copyTargetOption = o,
                    !.copyTargets =
                       getTargets(o, m.trains, m.selectedTrain, m.selectedVehicle) ]

-----------------------------------------------------------------------------
(* The view-model's methods                                                *)

LIVE == << "subscription" >>

\* A subscription made whether or not a handle is held.
acquireAlways(handle, n) == << LIVE, n + 1 >>

\* handle ||= context.subscribe(...): subscribes only when no handle is held.
\* Yields the handle and the number of live subscriptions afterwards.
acquire(handle, n) ==
    IF handle # NULL THEN << handle, n >> ELSE << LIVE, n + 1 >>

\* if (handle) handle.dispose(); handle = undefined
release(handle, n) ==
    IF handle # NULL THEN << NULL, n - 1 >> ELSE << NULL, n >>

\* _open(), the stores it sets
open(m, w) ==
    LET m1 == [ m EXCEPT !.isOpen = TRUE, !.rideTypes = getAllRideTypes(w) ]
    IN  setRides(m1, w, getAllRides(w))

\* A close that also empties the clipboard and the copy filters.
closeClearing(m) ==
    [ m EXCEPT !.isOpen = FALSE,
               !.onPlayerAction = NULL,
               !.onGameTick = NULL,
               !.multiplierIndex = 0,
               !.synchronizeTargets = FALSE,
               !.copyFilters = 0,
               !.clipboard = NULL ]

\* _close(), the fields and stores it sets
close(m) ==
    [ m EXCEPT !.isOpen = FALSE,
               !.onPlayerAction = NULL,
               !.onGameTick = NULL,
               !.multiplierIndex = 0,
               !.synchronizeTargets = FALSE ]

\* The first (train, vehicle) position, 1-based, of a car in a train list,
\* in the order of the two nested loops of _select; <<>> when the loops end.
findCar(trainList, carId) ==
    LET hits == UNION { { << t, v >> :
                            v \in { u \in 1..Len(trainVehicles(trainList[t])) :
                                      trainVehicles(trainList[t])[u] = carId } } :
                        t \in 1..Len(trainList) }
    IN  IF hits = {} THEN NULL
        ELSE CHOOSE p \in hits :
                \A q \in hits : p[1] < q[1] \/ (p[1] = q[1] /\ p[2] <= q[2])

\* A selection that leaves the vehicle to the train's subscriber.
selectTrainOnly(m, w, car) ==
    LET carRideIndex == findIndex(m.rides, car.ride)
    IN  IF carRideIndex = -1 THEN m
        ELSE LET m1 == setSelectedRide(m, w, << m.rides[carRideIndex + 1], carRideIndex >>)
                 hit == findCar(m1.trains, car.id)
             IN  IF hit = NULL THEN m1
                 ELSE setSelectedTrain(m1, w, << m1.trains[hit[1]], hit[1] - 1 >>)

\* _select(car)
select(m, w, car) ==
    LET rides == m.rides
        carId == car.id
        rideId == car.ride
        carRideIndex == findIndex(rides, rideId)
    IN  IF carRideIndex = -1 THEN m
        ELSE LET m1 == setSelectedRide(m, w, << rides[carRideIndex + 1], carRideIndex >>)
                 trainList == m1.trains
                 hit == findCar(trainList, carId)
             IN  IF hit = NULL THEN m1
                 ELSE LET m2 == setSelectedTrain(m1, w, << trainList[hit[1]], hit[1] - 1 >>)
                      IN  setSelectedVehicle(m2, w,
                             << trainVehicles(trainList[hit[1]])[hit[2]], hit[2] - 1 >>)

\* An edit that never fans out to the copy targets.
modifyVehicleSingle(m, action, value, filter) ==
    IF m.selectedVehicle # NULL
    THEN << [ action |-> action, targets |-> << << m.selectedVehicle[1], 1 >> >>,
              value |-> value ] >>
    ELSE << >>

\* An edit that tests the synchronize flag before the selection.
modifyVehicleUnguarded(m, action, value, filter) ==
    IF m.synchronizeTargets
    THEN << [ action |-> action, targets |-> m.copyTargets, value |-> value ] >>
    ELSE IF m.selectedVehicle # NULL
         THEN << [ action |-> action, targets |-> << << m.selectedVehicle[1], 1 >> >>,
                   value |-> value ] >>
         ELSE << >>

\* An edit that fans out only when the control's filter is enabled in the mask.
modifyVehicleFiltered(m, action, value, filter) ==
    IF m.selectedVehicle # NULL
    THEN IF m.synchronizeTargets /\ ((m.copyFilters \div filter) % 2) = 1
         THEN << [ action |-> action, targets |-> m.copyTargets, value |-> value ] >>
         ELSE << [ action |-> action, targets |-> << << m.selectedVehicle[1], 1 >> >>,
                   value |-> value ] >>
    ELSE << >>

\* _modifyVehicle(action, value): the invocations of the setter it makes.
\* The callers of the side window pass a CopyFilter as a third argument.
modifyVehicle(m, action, value, filter) ==
    LET vehicle == m.selectedVehicle
    IN  IF vehicle # NULL
        THEN IF m.synchronizeTargets
             THEN << [ action |-> action, targets |-> m.copyTargets, value |-> value ] >>
             ELSE << [ action |-> action, targets |-> << << vehicle[1], 1 >> >>,
                       value |-> value ] >>
        ELSE << >>

\* _isEditDisabled = compute(_selectedVehicle, v => !v)
isEditDisabled(m) == m.selectedVehicle = NULL

\* A position lock that looks at the moving-state only.
isPositionDisabledWhileMoving(m) == m.isMoving

\* _isPositionDisabled = compute(_isMoving, _isEditDisabled, (m, e) => m || e)
isPositionDisabled(m) == m.isMoving \/ isEditDisabled(m)

\* A tick that pulls the full field set.
onGameTickExecutedFull(m, w) ==
    IF m.selectedVehicle # NULL
    THEN updateVehicleInfo(m, w, m.selectedVehicle[1], m.selectedVehicle[2])
    ELSE m

\* _onGameTickExecuted()
onGameTickExecuted(m, w) ==
    LET vehicle == m.selectedVehicle
    IN  IF vehicle # NULL
        THEN updateDynamicDataFromCar(m, w, Car(w, vehicle[1]), vehicle[2])
        ELSE m

\* The listener pushed on refreshVehicle by the constructor.
onRefreshVehicle(m, w, id) ==
    IF ~m.isOpen THEN m
    ELSE LET vehicle == m.selectedVehicle
         IN  IF vehicle # NULL /\ vehicle[1] = id
             THEN updateVehicleInfo(m, w, vehicle[1], vehicle[2])
             ELSE m

\* The handler without the early return on a client-only execution.
onPlayerActionExecutedQueries(m, w, event) ==
    CASE event.action \in { "ridecreate", "ridedemolish", "ridesetname" } ->
            setRides(m, w, getAllRides(w))
      [] event.action = "ridesetstatus" ->
            IF findIndex(m.rides, event.ride) # -1
               /\ m.selectedRide # NULL /\ m.selectedRide[1] = event.ride
            THEN IF rideRefresh(w, event.ride) /\ m.selectedTrain = NULL
                 THEN setTrains(m, w, rideTrains(w, event.ride))
                 ELSE IF ~rideRefresh(w, event.ride)
                         \/ (m.selectedTrain # NULL /\ ~trainRefresh(w, m.selectedTrain[1]))
                      THEN setTrains(m, w, << >>)
                      ELSE m
            ELSE m
      [] OTHER -> m

\* A handler that reloads the ride's trains whenever the selected ride
\* changes status.
onPlayerActionExecutedRespawn(m, w, event) ==
    IF event.isClientOnly THEN m
    ELSE CASE event.action \in { "ridecreate", "ridedemolish", "ridesetname" } ->
                setRides(m, w, getAllRides(w))
           [] event.action = "ridesetstatus" ->
                IF findIndex(m.rides, event.ride) # -1
                   /\ m.selectedRide # NULL /\ m.selectedRide[1] = event.ride
                THEN setTrains(m, w, rideTrains(w, event.ride))
                ELSE m
           [] OTHER -> m

\* _onPlayerActionExecuted(event)
onPlayerActionExecuted(m, w, event) ==
    IF event.isClientOnly THEN m
    ELSE CASE event.action \in { "ridecreate", "ridedemolish", "ridesetname" } ->
                setRides(m, w, getAllRides(w))
           [] event.action = "ridesetstatus" ->
                LET rideId == event.ride
                    found == findIndex(m.rides, rideId) # -1
                    rideExists == rideRefresh(w, rideId)
                    selectedRide == m.selectedRide
                    selectedTrain == m.selectedTrain
                IN  IF found /\ selectedRide # NULL /\ selectedRide[1] = rideId
                    THEN IF rideExists /\ selectedTrain = NULL
                         THEN setTrains(m, w, rideTrains(w, rideId))
                         ELSE IF ~rideExists
                                 \/ (selectedTrain # NULL /\ ~trainRefresh(w, selectedTrain[1]))
                              THEN setTrains(m, w, << >>)
                              ELSE m
                    ELSE m
           [] OTHER -> m

\* Bitwise a | b and a & ~b of non-negative integers.
RECURSIVE BitOr(_, _)
BitOr(a, b) ==
    IF a = 0 THEN b
    ELSE IF b = 0 THEN a
    ELSE (IF (a % 2) = 1 \/ (b % 2) = 1 THEN 1 ELSE 0) + (2 * BitOr(a \div 2, b \div 2))

RECURSIVE BitAndNot(_, _)
BitAndNot(a, b) ==
    IF a = 0 THEN 0
    ELSE IF b = 0 THEN a
    ELSE (IF (a % 2) = 1 /\ (b % 2) = 0 THEN 1 ELSE 0)
            + (2 * BitAndNot(a \div 2, b \div 2))

\* A toggle that clears with the filter itself instead of its complement.
toggledUncomplemented(enabledFilters, filter, toggle) ==
    IF toggle THEN BitOr(enabledFilters, filter)
              ELSE enabledFilters - BitAndNot(enabledFilters, filter)

\* (toggle) ? (enabledFilters | filter) : (enabledFilters & ~filter)
toggled(enabledFilters, filter, toggle) ==
    IF toggle THEN BitOr(enabledFilters, filter)
              ELSE BitAndNot(enabledFilters, filter)

\* _setFilter(filter, toggle)
setFilter(m, filter, toggle) ==
    LET enabledFilters == m.copyFilters
    IN  [ m EXCEPT !.copyFilters = toggled(enabledFilters, filter, toggle) ]

-----------------------------------------------------------------------------
(* Inputs                                                                  *)

\* The CopyFilter enumeration: one bit per field group (TypeAndVariant,
\* Colours, TrackProgress, Spacing, Position, Seats, Mass,
\* PoweredAcceleration, PoweredMaxSpeed, Spin).
NumFilters == 10

RECURSIVE Pow2(_)
Pow2(n) == IF n = 0 THEN 1 ELSE 2 * Pow2(n - 1)

CopyFilterBits == { Pow2(i) : i \in 0..(NumFilters - 1) }

\* The copy options of the side window's dropdown.
CopyOptions == 0..8

\* The setters the side window hands to _modifyVehicle, each with the
\* CopyFilter its control passes along.
Setters == { << "setVariant", 1 >>, << "setMass", 64 >> }

SetterValues == { 0, 1 }

ActionKinds == { "ridecreate", "ridedemolish", "ridesetname", "ridesetstatus", "trackplace" }

\* Removing a ride from, and inserting it at position i of, the park list.
RECURSIVE Without(_, _)
Without(list, r) ==
    IF list = << >> THEN << >>
    ELSE IF Head(list) = r THEN Without(Tail(list), r)
    ELSE << Head(list) >> \o Without(Tail(list), r)

InsertAt(list, i, r) == SubSeq(list, 1, i - 1) \o << r >> \o SubSeq(list, i, Len(list))

\* The park after the host executed a game action.
Executed(w, kind, r) ==
    CASE kind = "ridecreate" ->
            { [ w EXCEPT !.park = InsertAt(w.park, i, r), !.numTrains[r] = 0 ] :
                i \in 1..(Len(w.park) + 1) }
      [] kind = "ridedemolish" ->
            { [ w EXCEPT !.park = Without(w.park, r), !.numTrains[r] = 0 ] }
      [] kind = "ridesetname" ->
            { [ w EXCEPT !.park = InsertAt(Without(w.park, r), i, r) ] :
                i \in 1..Len(w.park) }
      [] kind = "ridesetstatus" ->
            { [ w EXCEPT !.numTrains[r] = n ] : n \in 0..MaxTrains }
      [] OTHER -> { w }

\* Whether the host can execute the action on the ride at all.
Executable(w, kind, r) ==
    IF kind = "ridecreate" THEN ~rideRefresh(w, r) ELSE rideRefresh(w, r)

-----------------------------------------------------------------------------
(* The state machine                                                       *)

\* new VehicleViewModel(): the field initialisers.
NewViewModel ==
    [ selectedRide |-> NULL,
      selectedTrain |-> NULL,
      selectedVehicle |-> NULL,
      rideTypes |-> << >>,
      rides |-> << >>,
      trains |-> << >>,
      vehicles |-> << >>,
      type |-> NULL,
      variant |-> 0,
      seats |-> 0,
      mass |-> 0,
      poweredAcceleration |-> 0,
      poweredMaxSpeed |-> 0,
      trackProgress |-> 0,
      spacing |-> << 0 >>,
      x |-> 0,
      y |-> 0,
      z |-> 0,
      primaryColour |-> 0,
      secondaryColour |-> 0,
      tertiaryColour |-> 0,
      isMoving |-> FALSE,
      isPicking |-> FALSE,
      multiplierIndex |-> 0,
      copyFilters |-> 0,
      copyTargetOption |-> 0,
      copyTargets |-> << >>,
      synchronizeTargets |-> FALSE,
      clipboard |-> NULL,
      amount |-> 1,
      isOpen |-> FALSE,
      onPlayerAction |-> NULL,
      onGameTick |-> NULL ]

\* The editor window module as loaded: no window object, an empty clipboard.
NewEditor ==
    [ copiedVehicleSettings |-> NULL, window |-> FALSE, widgets |-> NULL ]

PrefKeys == { "rve.theme", "pe.theme", "pe.sticky" }

\* context.sharedStorage.get(key, defaultValue)
sharedStorageGet(storage, key, defaultValue) ==
    IF storage[key] = NULL THEN defaultValue ELSE storage[key][1]

\* context.sharedStorage.set(key, value)
sharedStorageSet(storage, key, value) == [ storage EXCEPT ![key] = << value >> ]

\* The stores of the two window modules as they are initialised when the
\* plugin is loaded with the given shared storage.
Loaded(storage) ==
    [ storage |-> storage,
      theme |-> sharedStorageGet(storage, "rve.theme", "rct1"),
      stickySideWindow |-> sharedStorageGet(storage, "pe.sticky", TRUE) ]

\* A ride as it is built, with the ride tab not opened yet.
NewRideEdit ==
    [ ride |-> NULL,
      permission |-> TRUE,
      excitement |-> 0,
      intensity |-> 0,
      nausea |-> 0,
      buildDate |-> 0,
      lifecycleFlags |-> { } ]

\* new SpinnerComponent(): the field initialisers, the widget not refreshed.
NewSpinner ==
    [ wrapMode |-> "wrap",
      minimum |-> 0,
      maximum |-> 0,
      increment |-> 1,
      value |-> 0,
      isActive |-> FALSE,
      text |-> NULL,
      isDisabled |-> TRUE ]

\* new ViewportComponent(): the field initialisers, the widget far away, no
\* subscription with the host.
NewViewport ==
    [ isActive |-> FALSE,
      entityId |-> -1,
      updater |-> NULL,
      live |-> 0,
      at |-> << "farAway" >> ]

Constructed ==
    /\ vm = NewViewModel
    /\ spinner = NewSpinner
    /\ viewport = NewViewport
    /\ rideEdit = NewRideEdit
    /\ prefs = Loaded([ k \in PrefKeys |-> NULL ])
    /\ host = [ action |-> 0, tick |-> 0 ]
    /\ calls = << >>
    /\ last = [ op |-> "new", args |-> << >> ]
    /\ lifecycle = "none"
    /\ editor = NewEditor

\* A park with every ride built, each with the given number of trains.
Park(n) ==
    [ park |-> [ i \in 1..MaxRides |-> i ], numTrains |-> n, dyn |-> 0, paint |-> 0 ]

\* The plugin is loaded in a park whose rides all run their trains.
Init ==
    /\ Constructed
    /\ world = Park([ r \in RideIds |-> MaxTrains ])

\* The plugin is loaded in a park whose rides run any number of trains.
InitAnyTrains ==
    /\ Constructed
    /\ world \in { Park(n) : n \in [ RideIds -> 0..MaxTrains ] }

\* 1 when a handler changed the vehicle selection, 0 when it left it as it was.
Changed(m0, m1) == IF m1.selectedVehicle # m0.selectedVehicle THEN 1 ELSE 0

\* mainWindow.onOpen: model._open()
Open ==
    LET m == open(vm, world)
        a == acquire(m.onPlayerAction, host.action)
        t == acquire(m.onGameTick, host.tick)
    IN  /\ vm' = [ m EXCEPT !.onPlayerAction = a[1], !.onGameTick = t[1] ]
        /\ host' = [ action |-> a[2], tick |-> t[2] ]
        /\ calls' = << >>
        /\ last' = [ op |-> "open", args |-> << IF vm.isOpen THEN 1 ELSE 0 >> ]
        /\ lifecycle' = "open"
        /\ UNCHANGED << world, ui >>

\* mainWindow.onClose: model._close()
Close ==
    LET a == release(vm.onPlayerAction, host.action)
        t == release(vm.onGameTick, host.tick)
    IN  /\ vm' = close(vm)
        /\ host' = [ action |-> a[2], tick |-> t[2] ]
        /\ calls' = << >>
        /\ last' = [ op |-> "close", args |-> << vm.multiplierIndex >> ]
        /\ lifecycle' = "close"
        /\ UNCHANGED << world, ui >>

\* _select(car) with a car entity of the park
Select ==
    \E c \in WorldCars(world) :
        /\ vm' = select(vm, world, Car(world, c))
        /\ calls' = << >>
        /\ last' = [ op |-> "select", args |-> << Changed(vm, vm'), c >> ]
        /\ UNCHANGED << world, host, lifecycle, ui >>

\* The cars a ride has while all its trains are spawned.
RideCars(r) ==
    UNION { { CarId(r, t, v) : v \in 0..(CarsIn(r, t) - 1) } :
            t \in 0..(MaxTrains - 1) }

\* _select(car) with a car entity whose train the park no longer has
SelectRemoved ==
    \E r \in RideIds : \E c \in RideCars(r) \ WorldCars(world) :
        /\ vm' = select(vm, world, Car(world, c))
        /\ calls' = << >>
        /\ last' = [ op |-> "select", args |-> << Changed(vm, vm'), c >> ]
        /\ UNCHANGED << world, host, lifecycle, ui >>

\* The vehicle dropdown of the side window (enabled with two or more items).
SelectVehicle ==
    /\ vm.isOpen
    /\ Len(vm.vehicles) >= 2
    /\ \E idx \in 0..(Len(vm.vehicles) - 1) :
        /\ vm' = setSelectedVehicle(vm, world, << vm.vehicles[idx + 1], idx >>)
        /\ last' = [ op |-> "selectVehicle", args |-> << Changed(vm, vm') >> ]
    /\ calls' = << >>
    /\ UNCHANGED << world, host, lifecycle, ui >>

\* A control of the side window calls _modifyVehicle.  The side window is
\* opened and closed together with the main window.
ModifyVehicle ==
    /\ vm.isOpen
    /\ \E s \in Setters, value \in SetterValues :
        /\ calls' = modifyVehicle(vm, s[1], value, s[2])
        /\ last' = [ op |-> "modifyVehicle", args |-> << s[2], value >> ]
    /\ UNCHANGED << vm, world, host, lifecycle, ui >>

\* A checkbox of the 'Apply & synchronize' box, one of the given filters,
\* calls _setFilter.
Toggle(filters) ==
    /\ vm.isOpen
    /\ \E filter \in filters, toggle \in BOOLEAN :
        /\ vm' = setFilter(vm, filter, toggle)
        /\ last' = [ op |-> "setFilter", args |-> << filter, IF toggle THEN 1 ELSE 0 >> ]
    /\ calls' = << >>
    /\ UNCHANGED << world, host, lifecycle, ui >>

\* Any of the ten checkboxes.
SetFilter == Toggle(CopyFilterBits)

\* The 'Type & variant' checkbox.
SetTypeFilter == Toggle({ 1 })

\* The copy option dropdown sets _copyTargetOption.
SetCopyTargetOption ==
    /\ vm.isOpen
    /\ \E idx \in CopyOptions : vm' = setCopyTargetOption(vm, idx)
    /\ calls' = << >>
    /\ last' = [ op |-> "setCopyTargetOption", args |-> << >> ]
    /\ UNCHANGED << world, host, lifecycle, ui >>

\* The synchronize toggle (disabled while no vehicle is selected).
SetSynchronize ==
    /\ vm.isOpen
    /\ vm.selectedVehicle # NULL
    /\ \E enabled \in BOOLEAN :
        /\ vm' = [ vm EXCEPT !.synchronizeTargets = enabled ]
        /\ last' = [ op |-> "setSynchronize", args |-> << >> ]
    /\ calls' = << >>
    /\ UNCHANGED << world, host, lifecycle, ui >>

\* The host delivers 'interval.tick' to the live subscription.
Tick ==
    /\ vm.onGameTick # NULL
    /\ vm' = onGameTickExecuted(vm, world)
    /\ calls' = << >>
    /\ last' = [ op |-> "tick", args |-> << >> ]
    /\ UNCHANGED << world, host, lifecycle, ui >>

\* The vehicle editor service reports an edited vehicle (refreshVehicle).
RefreshVehicle ==
    \E id \in WorldCars(world) :
        /\ vm' = onRefreshVehicle(vm, world, id)
        /\ calls' = << >>
        /\ last' = [ op |-> "refreshVehicle",
                     args |-> << IF vm.selectedVehicle # NULL /\ vm.selectedVehicle[1] = id
                                 THEN 1 ELSE 0 >> ]
        /\ UNCHANGED << world, host, lifecycle, ui >>

\* The host executes a game action of one of the given kinds and delivers
\* 'action.execute' to the live subscription; a client-only (query) execution
\* changes nothing in the park.
Execute(kinds) ==
    \E kind \in kinds, r \in RideIds, isClientOnly \in BOOLEAN :
        /\ Executable(world, kind, r)
        /\ \E w \in (IF isClientOnly THEN { world } ELSE Executed(world, kind, r)) :
            /\ world' = w
            /\ vm' = IF vm.onPlayerAction # NULL
                     THEN onPlayerActionExecuted(vm, w,
                            [ action |-> kind, isClientOnly |-> isClientOnly, ride |-> r ])
                     ELSE vm
        /\ calls' = << >>
        /\ last' = [ op |-> kind, args |-> << IF isClientOnly THEN 1 ELSE 0, r >> ]
        /\ UNCHANGED << host, lifecycle, ui >>

\* Any game action.
GameAction == Execute(ActionKinds)

\* A ride is opened, closed or tested: its trains are spawned or removed.
RideSetStatus == Execute({ "ridesetstatus" })

\* The simulation moves the vehicles.
HostSimulate ==
    /\ \E d \in 0..2 : d # world.dyn /\ world' = [ world EXCEPT !.dyn = d ]
    /\ calls' = << >>
    /\ last' = [ op |-> "simulate", args |-> << >> ]
    /\ UNCHANGED << vm, host, lifecycle, ui >>

\* Something outside the view-model changes the appearance of the vehicles.
HostRepaint ==
    /\ world' = [ world EXCEPT !.paint = 1 - world.paint ]
    /\ calls' = << >>
    /\ last' = [ op |-> "repaint", args |-> << >> ]
    /\ UNCHANGED << vm, host, lifecycle, ui >>

\* Selecting and the park's rides and trains changing.
NextSelection ==
    \/ Open
    \/ Close
    \/ Select
    \/ SelectRemoved
    \/ SelectVehicle
    \/ GameAction

SpecSelection == Init /\ [][NextSelection]_vars

\* The field mirror while the simulation and outside edits change the cars.
NextMirror ==
    \/ Open
    \/ Close
    \/ Select
    \/ SelectVehicle
    \/ Tick
    \/ RefreshVehicle
    \/ HostSimulate
    \/ HostRepaint

SpecMirror == InitAnyTrains /\ [][NextMirror]_vars

\* Editing the selected vehicle, alone or synchronized with copy targets.
NextModify ==
    \/ Open
    \/ Close
    \/ Select
    \/ SelectVehicle
    \/ ModifyVehicle
    \/ SetTypeFilter
    \/ SetCopyTargetOption
    \/ SetSynchronize
    \/ RideSetStatus

SpecModify == Init /\ [][NextModify]_vars

\* Toggling the copy filters.
NextFilter ==
    \/ Open
    \/ Close
    \/ SetFilter

SpecFilter == Init /\ [][NextFilter]_vars

-----------------------------------------------------------------------------
(* The clipboard: the copy and paste buttons                               *)

\* getVehicleSettings(car): the settings a copy captures from a car.
getVehicleSettings(car) ==
    [ rideObject |-> car.rideObject,
      vehicleObject |-> car.vehicleObject,
      seats |-> car.numSeats,
      mass |-> car.mass,
      poweredAcceleration |-> car.poweredAcceleration,
      poweredMaxSpeed |-> car.poweredMaxSpeed,
      colours |-> car.colours ]

\* The snapshot of the selected vehicle, or null while none is selected.
SelectedSettings(m, w) ==
    IF m.selectedVehicle = NULL THEN NULL
    ELSE << getVehicleSettings(Car(w, m.selectedVehicle[1])) >>

\* onCopyVehicle(): the callback the owner of the window registers.
onCopyVehicle(m, w) == SelectedSettings(m, w)

\* createWindow(): the copy and paste buttons as the window description
\* initialises them.
createWindow(e) ==
    [ e EXCEPT !.widgets = << [ copyPressed |-> e.copiedVehicleSettings # NULL,
                                pasteDisabled |-> e.copiedVehicleSettings = NULL ] >> ]

\* show()
show(e) ==
    IF e.window THEN e
    ELSE [ createWindow(e) EXCEPT !.window = TRUE ]

onClickCopyAlwaysPressed(e, copied) ==
    IF e.widgets[1].copyPressed
    THEN [ e EXCEPT !.copiedVehicleSettings = NULL,
                    !.widgets = << [ copyPressed |-> FALSE, pasteDisabled |-> TRUE ] >> ]
    ELSE [ e EXCEPT !.copiedVehicleSettings = copied,
                    !.widgets = << [ copyPressed |-> TRUE, pasteDisabled |-> FALSE ] >> ]

onClickCopyKeeping(e, copied) ==
    IF e.widgets[1].copyPressed
    THEN [ e EXCEPT !.widgets = << [ copyPressed |-> FALSE, pasteDisabled |-> TRUE ] >> ]
    ELSE [ e EXCEPT !.copiedVehicleSettings =
                        IF e.copiedVehicleSettings # NULL THEN e.copiedVehicleSettings
                        ELSE copied,
                    !.widgets = << [ copyPressed |-> copied # NULL,
                                     pasteDisabled |-> copied = NULL ] >> ]

\* onClickCopy(), copied being what onCopyVehicle() returns when it is asked.
onClickCopy(e, copied) ==
    IF e.widgets[1].copyPressed
    THEN [ e EXCEPT !.copiedVehicleSettings = NULL,
                    !.widgets = << [ copyPressed |-> FALSE,
                                     pasteDisabled |-> ~FALSE ] >> ]
    ELSE [ e EXCEPT !.copiedVehicleSettings = copied,
                    !.widgets = << [ copyPressed |-> copied # NULL,
                                     pasteDisabled |-> ~(copied # NULL) ] >> ]

onClickPasteUnguarded(e) ==
    << << "onPasteVehicle", e.copiedVehicleSettings >> >>

\* onClick of the paste button: the calls of onPasteVehicle it makes.
onClickPaste(e) ==
    IF e.copiedVehicleSettings # NULL
    THEN << << "onPasteVehicle", e.copiedVehicleSettings >> >>
    ELSE << >>

\* The main window's copy toggle: isPressed
copyIsPressed(m) == m.clipboard # NULL

\* The main window's paste button: disabled
pasteIsDisabled(m) == isEditDisabled(m) \/ m.clipboard = NULL

\* _copy(pressed)
copy(m, w, pressed) ==
    [ m EXCEPT !.clipboard = IF pressed THEN SelectedSettings(m, w) ELSE NULL ]

\* _paste(): the calls it makes to apply the clipboard to the selection.
paste(m) ==
    IF m.clipboard # NULL /\ m.selectedVehicle # NULL
    THEN << << "applyToTargets", m.clipboard, m.selectedVehicle[1] >> >>
    ELSE << >>

\* The owner constructs a VehicleEditorWindow once the window of the one
\* before is closed; the new object has no _window yet.
EditorNew ==
    /\ editor.widgets = NULL
    /\ editor.window
    /\ editor' = [ editor EXCEPT !.window = FALSE ]
    /\ calls' = << >>
    /\ last' = [ op |-> "newWindow", args |-> << >> ]
    /\ UNCHANGED << vm, world, host, lifecycle, prefs, rideEdit, spinner, viewport >>

\* The owner calls show().
EditorShow ==
    /\ editor' = show(editor)
    /\ calls' = << >>
    /\ last' = [ op |-> "show", args |-> << >> ]
    /\ UNCHANGED << vm, world, host, lifecycle, prefs, rideEdit, spinner, viewport >>

\* The editor window is closed (by the user or by close()): the host drops
\* the window and its widgets; onClose stops the viewport and tells the owner.
EditorClose ==
    /\ editor.widgets # NULL
    /\ editor' = [ editor EXCEPT !.widgets = NULL ]
    /\ calls' = << >>
    /\ last' = [ op |-> "closeWindow", args |-> << >> ]
    /\ UNCHANGED << vm, world, host, lifecycle, prefs, rideEdit, spinner, viewport >>

\* The copy button of the editor window is clicked.
ClickCopy ==
    /\ editor.widgets # NULL
    /\ editor' = onClickCopy(editor, onCopyVehicle(vm, world))
    /\ calls' = << >>
    /\ last' = [ op |-> "clickCopy", args |-> << >> ]
    /\ UNCHANGED << vm, world, host, lifecycle, prefs, rideEdit, spinner, viewport >>

\* The onClick handler of the editor window's paste button runs.
ClickPaste ==
    /\ editor.widgets # NULL
    /\ calls' = onClickPaste(editor)
    /\ last' = [ op |-> "clickPaste", args |-> << >> ]
    /\ UNCHANGED << vm, world, host, lifecycle, ui >>

\* The copy toggle of the main window is clicked (disabled while no vehicle
\* is selected); the toggle reports the opposite of what it shows.
CopyToggle ==
    /\ vm.isOpen
    /\ ~isEditDisabled(vm)
    /\ vm' = copy(vm, world, ~copyIsPressed(vm))
    /\ calls' = << >>
    /\ last' = [ op |-> "copy", args |-> << >> ]
    /\ UNCHANGED << world, host, lifecycle, ui >>

\* The paste button of the main window is clicked.
PasteButton ==
    /\ vm.isOpen
    /\ ~pasteIsDisabled(vm)
    /\ calls' = paste(vm)
    /\ last' = [ op |-> "paste", args |-> << >> ]
    /\ UNCHANGED << vm, world, host, lifecycle, ui >>

\* Copying and pasting in either window while the selection changes.
NextClipboard ==
    \/ Open
    \/ Close
    \/ Select
    \/ EditorNew
    \/ EditorShow
    \/ EditorClose
    \/ ClickCopy
    \/ ClickPaste
    \/ CopyToggle
    \/ PasteButton

SpecClipboard == Init /\ [][NextClipboard]_vars


-----------------------------------------------------------------------------
(* The options tab and the preferences in the shared storage                *)

Themes == << "rct1", "rct2" >>

\* setTheme(theme)
setTheme(storage, theme) == sharedStorageSet(storage, "pe.theme", theme)

\* getTheme(theme)
getTheme(storage, theme) == sharedStorageGet(storage, "pe.theme", theme)

\* setSticky(isSticky)
setSticky(storage, isSticky) == sharedStorageSet(storage, "pe.sticky", isSticky)

\* onChange of the 'Side window sticks to main window' checkbox
onChangeSticky(p, checked) ==
    [ p EXCEPT !.stickySideWindow = checked,
               !.storage = setSticky(p.storage, checked) ]

\* onChange of the 'Colour scheme' dropdown
onChangeTheme(p, index) ==
    [ p EXCEPT !.theme = Themes[index + 1] ]

\* The user ticks or clears the sticky checkbox of the options tab.
ChangeSticky ==
    /\ vm.isOpen
    /\ \E checked \in BOOLEAN :
        /\ checked # prefs.stickySideWindow
        /\ prefs' = onChangeSticky(prefs, checked)
        /\ last' = [ op |-> "changeSticky", args |-> << IF checked THEN 1 ELSE 0 >> ]
    /\ calls' = << >>
    /\ UNCHANGED << vm, world, host, lifecycle, editor, rideEdit, spinner, viewport >>

\* The user picks another colour scheme in the options tab.
ChangeTheme ==
    /\ vm.isOpen
    /\ \E index \in 0..1 :
        /\ Themes[index + 1] # prefs.theme
        /\ prefs' = onChangeTheme(prefs, index)
        /\ last' = [ op |-> "changeTheme", args |-> << index >> ]
    /\ calls' = << >>
    /\ UNCHANGED << vm, world, host, lifecycle, editor, rideEdit, spinner, viewport >>

\* Another module calls the exported setTheme.
SetTheme ==
    /\ \E t \in { Themes[i] : i \in 1..2 } :
        /\ prefs' = [ prefs EXCEPT !.storage = setTheme(prefs.storage, t) ]
        /\ last' = [ op |-> "setTheme", args |-> << t >> ]
    /\ calls' = << >>
    /\ UNCHANGED << vm, world, host, lifecycle, editor, rideEdit, spinner, viewport >>

\* The plugin is loaded again (the game restarts or the park is reloaded):
\* every module is initialised anew, the shared storage is what it was.
Reload ==
    /\ vm' = NewViewModel
    /\ host' = [ action |-> 0, tick |-> 0 ]
    /\ editor' = NewEditor
    /\ prefs' = Loaded(prefs.storage)
    /\ calls' = << >>
    /\ last' = [ op |-> "load", args |-> << >> ]
    /\ lifecycle' = "none"
    /\ rideEdit' = [ rideEdit EXCEPT !.ride = NULL ]
    /\ spinner' = NewSpinner
    /\ viewport' = NewViewport
    /\ UNCHANGED world

\* Changing the preferences and loading the plugin again.
NextPreferences ==
    \/ Open
    \/ Close
    \/ ChangeSticky
    \/ ChangeTheme
    \/ SetTheme
    \/ Reload

SpecPreferences == Init /\ [][NextPreferences]_vars


-----------------------------------------------------------------------------
(* The 'Amount of vehicles to modify' spinner and the Apply button          *)

\* minimum of the amount spinner
amountMinimum == 1

\* maximum of the amount spinner: the vehicles from the selected one to the
\* end of its train.
amountMaximum(m) ==
    IF m.selectedVehicle # NULL
    THEN Len(m.vehicles) - m.selectedVehicle[2]
    ELSE 1

\* The amount applySelectedSettingsToRide passes to getTargets.
applyAmount(m) == m.amount

\* The user steps the amount spinner: its onChange stores a value within the
\* bounds the spinner has at that moment (a spinner whose minimum is not
\* below its maximum does not move).
SetAmount ==
    /\ vm.isOpen
    /\ amountMinimum < amountMaximum(vm)
    /\ \E v \in amountMinimum..amountMaximum(vm) :
        /\ vm' = [ vm EXCEPT !.amount = v ]
        /\ last' = [ op |-> "setAmount", args |-> << v >> ]
    /\ calls' = << >>
    /\ UNCHANGED << world, host, lifecycle, ui >>

\* The Apply button: applySelectedSettingsToRide()
Apply ==
    /\ vm.isOpen
    /\ vm.selectedVehicle # NULL
    /\ calls' = << << "getTargets", vm.copyTargetOption, vm.selectedVehicle[1],
                      applyAmount(vm) >> >>
    /\ last' = [ op |-> "apply", args |-> << applyAmount(vm) >> ]
    /\ UNCHANGED << vm, world, host, lifecycle, ui >>

\* Choosing an amount, selecting other vehicles and applying.
NextApply ==
    \/ Open
    \/ Close
    \/ Select
    \/ SelectVehicle
    \/ SetAmount
    \/ Apply

SpecApply == Init /\ [][NextApply]_vars


-----------------------------------------------------------------------------
(* The ride tab: ratings, construction date and lifecycle flags            *)

\* The ride with a flag of its lifecycleFlags set or cleared.
WithFlag(r, flag, on) ==
    [ r EXCEPT !.lifecycleFlags = IF on THEN @ \cup { flag } ELSE @ \ { flag } ]

\* The setters of services/rideEditor; the host executes them for a player
\* whose group has the ride_properties permission and refuses them otherwise.
setExcitementRating(r, value) ==
    IF r.permission THEN [ r EXCEPT !.excitement = value ] ELSE r

setIntensityRating(r, value) ==
    IF r.permission THEN [ r EXCEPT !.intensity = value ] ELSE r

setNauseaRating(r, value) ==
    IF r.permission THEN [ r EXCEPT !.nausea = value ] ELSE r

setBuildMonth(r, value) ==
    IF r.permission THEN [ r EXCEPT !.buildDate = value ] ELSE r

setFrozenRatings(r, value) ==
    IF r.permission THEN WithFlag(r, "FixedRatings", value) ELSE r

setCustomDesign(r, value) ==
    IF r.permission THEN WithFlag(r, "NotCustomDesign", ~value) ELSE r

setIndestructable(r, value) ==
    IF r.permission THEN WithFlag(r, "Indestructable", value) ELSE r

\* action(ride, value) for the setter of the given name
RideAction(action, r, value) ==
    CASE action = "setExcitementRating" -> setExcitementRating(r, value)
      [] action = "setIntensityRating" -> setIntensityRating(r, value)
      [] action = "setNauseaRating" -> setNauseaRating(r, value)
      [] action = "setBuildMonth" -> setBuildMonth(r, value)
      [] action = "setFrozenRatings" -> setFrozenRatings(r, value)
      [] action = "setCustomDesign" -> setCustomDesign(r, value)
      [] action = "setIndestructable" -> setIndestructable(r, value)

\* A modifyRide that acts when no ride is selected instead of when one is.
modifyRideInverted(r, action, value) ==
    IF r.ride = NULL THEN RideAction(action, r, value) ELSE r

\* modifyRide(action, value)
modifyRide(r, action, value) ==
    IF r.ride # NULL THEN RideAction(action, r, value) ELSE r

\* The controls of the ride tab that take a number, and those that take a flag.
NumberControls == { "Excitement", "Intensity", "Nausea", "Build month" }
FlagControls == { "Freeze rating calculation", "Custom design", "Indestructable" }

\* A ride tab whose flag checkboxes are wired to each other's setters.
controlSetterCrossed(control) ==
    CASE control = "Excitement" -> "setExcitementRating"
      [] control = "Intensity" -> "setIntensityRating"
      [] control = "Nausea" -> "setNauseaRating"
      [] control = "Build month" -> "setBuildMonth"
      [] control = "Freeze rating calculation" -> "setIndestructable"
      [] control = "Custom design" -> "setFrozenRatings"
      [] control = "Indestructable" -> "setCustomDesign"

\* The setter the onChange of each control hands to modifyRide.
controlSetter(control) ==
    CASE control = "Excitement" -> "setExcitementRating"
      [] control = "Intensity" -> "setIntensityRating"
      [] control = "Nausea" -> "setNauseaRating"
      [] control = "Build month" -> "setBuildMonth"
      [] control = "Freeze rating calculation" -> "setFrozenRatings"
      [] control = "Custom design" -> "setCustomDesign"
      [] control = "Indestructable" -> "setIndestructable"

\* The values the tests of the setters use, and zero.
RideValues == { -66, 0, 567 }

\* The ride tab is opened: its view-model takes the ride of the park.
OpenRideTab ==
    /\ vm.isOpen
    /\ rideEdit' = [ rideEdit EXCEPT !.ride = << getAllRides(world)[1] >> ]
    /\ calls' = << >>
    /\ last' = [ op |-> "openRideTab", args |-> << >> ]
    /\ UNCHANGED << vm, world, host, lifecycle, editor, prefs, spinner, viewport >>

\* A control of the ride tab is changed: onChange calls modifyRide with the
\* control's setter and the new value.
ModifyRide ==
    /\ vm.isOpen
    /\ \E control \in NumberControls \cup FlagControls :
       \E value \in (IF control \in NumberControls THEN RideValues ELSE BOOLEAN) :
        /\ rideEdit' = modifyRide(rideEdit, controlSetter(control), value)
        /\ last' = [ op |-> "modifyRide", args |-> << control, value >> ]
    /\ calls' = << >>
    /\ UNCHANGED << vm, world, host, lifecycle, editor, prefs, spinner, viewport >>

\* The server changes the permissions of the player's group.
SetPermission ==
    /\ rideEdit' = [ rideEdit EXCEPT !.permission = ~rideEdit.permission ]
    /\ calls' = << >>
    /\ last' = [ op |-> "setPermission", args |-> << >> ]
    /\ UNCHANGED << vm, world, host, lifecycle, editor, prefs, spinner, viewport >>

\* Editing the ride in the ride tab.
NextRide ==
    \/ Open
    \/ Close
    \/ OpenRideTab
    \/ ModifyRide
    \/ SetPermission

SpecRide == Init /\ [][NextRide]_vars


-----------------------------------------------------------------------------
(* The spinner component                                                   *)

\* The largest bound a spinner is configured with.
MaxSpin == 3

\* wrap(value, minimum, maximum) and clamp(value, minimum, maximum), both
\* bounds inclusive.
wrap(value, minimum, maximum) ==
    IF value < minimum THEN maximum
    ELSE IF value > maximum THEN minimum
    ELSE value

clamp(value, minimum, maximum) ==
    IF value < minimum THEN minimum
    ELSE IF value > maximum THEN maximum
    ELSE value

performWrapModeInclusive(s, value) ==
    IF s.wrapMode = "wrap"
    THEN wrap(value, s.minimum, s.maximum)
    ELSE clamp(value, s.minimum, s.maximum)

\* performWrapMode(value)
performWrapMode(s, value) ==
    IF s.wrapMode = "wrap"
    THEN wrap(value, s.minimum, s.maximum - 1)
    ELSE clamp(value, s.minimum, s.maximum - 1)

\* SpinnerComponent.refreshWidget(widget)
refreshSpinner(s) ==
    IF s.isActive /\ s.minimum < s.maximum
    THEN [ s EXCEPT !.text = << s.value >>,
                    !.isDisabled = (s.minimum >= (s.maximum - 1)) ]
    ELSE [ s EXCEPT !.text = NULL, !.isDisabled = TRUE ]

\* Component.active(value): the component is switched on or off and refreshed.
activeSpinner(s, value) == refreshSpinner([ s EXCEPT !.isActive = value ])

\* set(value)
set(s, value) ==
    IF s.minimum >= s.maximum THEN s
    ELSE IF value = s.value /\ s.isActive THEN s
    ELSE refreshSpinner([ s EXCEPT !.isActive = TRUE,
                                   !.value = performWrapMode(s, value) ])

\* onWidgetChange(value, adjustment), called with the stored value: the
\* spinner afterwards and the calls of onChange it made.
onWidgetChange(s, adjustment) ==
    IF s.isDisabled THEN << s, << >> >>
    ELSE LET after == set(s, s.value + adjustment)
         IN  << after, << << "onChange", after.value, adjustment >> >> >>

\* The multipliers x1 and x10.
Increments == { 1, 10 }

\* The owner assigns the bounds and the wrap mode of the spinner while it
\* is as constructed, before the spinner is set: the fields are written in
\* the owner's constructor only.
SpinnerConfigure ==
    /\ ~spinner.isActive
    /\ spinner.value = 0
    /\ \E lo \in 0..MaxSpin, hi \in 0..MaxSpin, mode \in { "wrap", "clamp" } :
        spinner' = [ spinner EXCEPT !.minimum = lo, !.maximum = hi, !.wrapMode = mode ]
    /\ calls' = << >>
    /\ last' = [ op |-> "configure", args |-> << >> ]
    /\ UNCHANGED << vm, world, host, lifecycle, editor, prefs, rideEdit, viewport >>

\* setSpinnerIncrement(spinner, increment)
SpinnerSetIncrement ==
    /\ \E inc \in Increments :
        spinner' = refreshSpinner([ spinner EXCEPT !.increment = inc ])
    /\ calls' = << >>
    /\ last' = [ op |-> "setIncrement", args |-> << >> ]
    /\ UNCHANGED << vm, world, host, lifecycle, editor, prefs, rideEdit, viewport >>

\* The owner calls set(value).
SpinnerSet ==
    /\ \E value \in (-1)..(MaxSpin + 1) :
        /\ spinner' = set(spinner, value)
        /\ last' = [ op |-> "set", args |-> << value >> ]
    /\ calls' = << >>
    /\ UNCHANGED << vm, world, host, lifecycle, editor, prefs, rideEdit, viewport >>

\* disableEditorControls(): spinner.active(false)
SpinnerDisable ==
    /\ spinner' = activeSpinner(spinner, FALSE)
    /\ calls' = << >>
    /\ last' = [ op |-> "disable", args |-> << >> ]
    /\ UNCHANGED << vm, world, host, lifecycle, editor, prefs, rideEdit, viewport >>

\* The widget's onIncrement or onDecrement fires.
SpinnerStep ==
    /\ \E direction \in { 1, -1 } :
        LET adjustment == direction * spinner.increment
            result == onWidgetChange(spinner, adjustment)
        IN  /\ spinner' = result[1]
            /\ calls' = result[2]
            /\ last' = [ op |-> "step", args |-> << adjustment >> ]
    /\ UNCHANGED << vm, world, host, lifecycle, editor, prefs, rideEdit, viewport >>

\* Configuring, setting and stepping a spinner.
NextSpinner ==
    \/ SpinnerConfigure
    \/ SpinnerSetIncrement
    \/ SpinnerSet
    \/ SpinnerDisable
    \/ SpinnerStep

SpecSpinner == Init /\ [][NextSpinner]_vars


-----------------------------------------------------------------------------
(* The viewport component                                                  *)

farAway == << -9000, -9000 >>

\* widget.viewport.moveTo(position)
moveTo(v, position) == [ v EXCEPT !.at = position ]

\* map.getEntity(id): the position of the entity, or null when there is none.
entityPosition(w, id) ==
    IF id \in WorldCars(w)
    THEN << << Car(w, id).x, Car(w, id).y, Car(w, id).z >> >>
    ELSE NULL

\* update(), for an entity id other than -1
updateEntity(v, w) ==
    IF entityPosition(w, v.entityId) # NULL
    THEN moveTo(v, entityPosition(w, v.entityId)[1])
    ELSE v

\* A refresh that subscribes without looking at the handle it holds.
refreshViewportResubscribing(v, w) ==
    IF v.isActive /\ v.entityId # -1
    THEN LET u == acquireAlways(v.updater, v.live)
         IN  updateEntity([ v EXCEPT !.updater = u[1], !.live = u[2] ], w)
    ELSE IF v.updater # NULL
         THEN moveTo([ v EXCEPT !.updater = NULL, !.live = v.live - 1 ], farAway)
         ELSE v

\* ViewportComponent.refreshWidget(widget)
refreshViewport(v, w) ==
    IF v.isActive /\ v.entityId # -1
    THEN LET u == acquire(v.updater, v.live)
         IN  updateEntity([ v EXCEPT !.updater = u[1], !.live = u[2] ], w)
    ELSE IF v.updater # NULL
         THEN moveTo([ v EXCEPT !.updater = NULL, !.live = v.live - 1 ], farAway)
         ELSE v

\* Component.active(value): the component is switched on or off and refreshed.
activeViewport(v, w, value) == refreshViewport([ v EXCEPT !.isActive = value ], w)

\* goTo(position)
goTo(v, w, position) ==
    refreshViewport(moveTo([ v EXCEPT !.isActive = TRUE, !.entityId = -1 ], position), w)

\* follow(entityId)
follow(v, w, entityId) ==
    refreshViewport([ v EXCEPT !.isActive = TRUE, !.entityId = entityId ], w)

\* stop()
stop(v, w) == activeViewport([ v EXCEPT !.entityId = -1 ], w, FALSE)

\* update()
update(v, w) ==
    IF v.entityId = -1 THEN stop(v, w) ELSE updateEntity(v, w)

\* The positions the owner jumps to, and the entity ids it follows: the cars
\* of the park, an id no entity has, and -1.
Positions == { << 32, 32 >>, << 64, 96, 16 >> }
FollowIds(w) == WorldCars(w) \cup { 0, -1 }

\* The owner calls goTo(position).
ViewportGoTo ==
    /\ \E position \in Positions :
        /\ viewport' = goTo(viewport, world, position)
        /\ last' = [ op |-> "goTo", args |-> << position >> ]
    /\ calls' = << >>
    /\ UNCHANGED << vm, world, host, lifecycle, editor, prefs, rideEdit, spinner >>

\* The owner calls follow(entityId).
ViewportFollow ==
    /\ \E id \in FollowIds(world) :
        /\ viewport' = follow(viewport, world, id)
        /\ last' = [ op |-> "follow", args |-> << id >> ]
    /\ calls' = << >>
    /\ UNCHANGED << vm, world, host, lifecycle, editor, prefs, rideEdit, spinner >>

\* The owner calls stop().
ViewportStop ==
    /\ viewport' = stop(viewport, world)
    /\ calls' = << >>
    /\ last' = [ op |-> "stop", args |-> << >> ]
    /\ UNCHANGED << vm, world, host, lifecycle, editor, prefs, rideEdit, spinner >>

\* The host delivers 'interval.tick' to the viewport's live subscription.
ViewportTick ==
    /\ viewport.updater # NULL
    /\ viewport' = update(viewport, world)
    /\ calls' = << >>
    /\ last' = [ op |-> "viewportTick", args |-> << >> ]
    /\ UNCHANGED << vm, world, host, lifecycle, editor, prefs, rideEdit, spinner >>

\* Following, jumping and stopping while the simulation moves the vehicles.
NextViewport ==
    \/ ViewportGoTo
    \/ ViewportFollow
    \/ ViewportStop
    \/ ViewportTick
    \/ HostSimulate

SpecViewport == Init /\ [][NextViewport]_vars



-----------------------------------------------------------------------------
(* Closing the window with settings made                                   *)

\* The multiplier dropdown of the side window sets _multiplierIndex
\* (x1, x10, x100).
SetMultiplier ==
    /\ vm.isOpen
    /\ \E idx \in 0..2 : vm' = [ vm EXCEPT !.multiplierIndex = idx ]
    /\ calls' = << >>
    /\ last' = [ op |-> "setMultiplier", args |-> << >> ]
    /\ UNCHANGED << world, host, lifecycle, ui >>

\* Closing and reopening the window after selecting, copying and setting
\* the multiplier, the filters, the copy option and the synchronize toggle.
NextClose ==
    \/ Open
    \/ Close
    \/ Select
    \/ SetTypeFilter
    \/ SetCopyTargetOption
    \/ SetSynchronize
    \/ CopyToggle
    \/ SetMultiplier

SpecClose == Init /\ [][NextClose]_vars

Next ==
    \/ NextSelection
    \/ NextMirror
    \/ NextModify
    \/ NextFilter
    \/ NextClipboard
    \/ NextPreferences
    \/ NextApply
    \/ NextRide
    \/ NextSpinner
    \/ NextViewport
    \/ NextClose

Spec == Init /\ [][Next]_vars

-----------------------------------------------------------------------------
(* The list-replacement rule                                               *)

\* The rule as the specification words it: sel is what the rule yields for
\* the previous selection prev and the new list items.
RuleYields(prev, items, sel) ==
    IF items = << >> THEN sel = NULL
    ELSE IF prev # NULL /\ prev[2] < Len(items)
         THEN sel = << items[prev[2] + 1], prev[2] >>
         ELSE sel = << items[1], 0 >>

\* The handlers that replace the ride list or the train list.
ListReplacingOps ==
    { "open", "ridecreate", "ridedemolish", "ridesetname", "ridesetstatus" }

\* C1: whenever a handler replaces a list, at every level (ride, train,
\* vehicle) the selection afterwards is null when the new list is empty,
\* keeps its index (with the new list's entity at that index) when the
\* previous selection exists and its index is below the new length, and is
\* index 0 of the new list otherwise.
C1_ListReplacementRule ==
    [][ last'.op \in ListReplacingOps =>
          /\ RuleYields(vm.selectedRide, vm'.rides, vm'.selectedRide)
          /\ RuleYields(vm.selectedTrain, vm'.trains, vm'.selectedTrain)
          /\ RuleYields(vm.selectedVehicle, vm'.vehicles, vm'.selectedVehicle)
      ]_vars

\* A delivered ride list replacement after which the second ride, the second
\* train and the second vehicle are still selected by their kept indices.
C1_IndexKept ==
    /\ last.op \in { "ridecreate", "ridesetname" }
    /\ last.args[1] = 0
    /\ vm.onPlayerAction # NULL
    /\ vm.selectedRide # NULL /\ vm.selectedRide[2] = 1
    /\ vm.selectedTrain # NULL /\ vm.selectedTrain[2] = 1
    /\ vm.selectedVehicle # NULL /\ vm.selectedVehicle[2] = 1

\* What the rule yields below a ride selection: mAfter is mBefore after the
\* ride selection changed, in the park w.
RideChangeProcessed(mBefore, mAfter, w) ==
    LET newTrains == IF mAfter.selectedRide = NULL THEN << >>
                     ELSE rideTrains(w, mAfter.selectedRide[1])
        newVehicles == IF mAfter.selectedTrain = NULL THEN << >>
                       ELSE trainVehicles(mAfter.selectedTrain[1])
    IN  /\ RuleYields(mBefore.selectedTrain, newTrains, mAfter.selectedTrain)
        /\ RuleYields(mBefore.selectedVehicle, newVehicles, mAfter.selectedVehicle)

\* C2: whenever the selected ride changes, once the change is processed the
\* train selection is what the rule yields for the new ride's train list and
\* the vehicle selection what it yields for the resulting train's vehicles
\* (null at both levels when the ride has no trains): for every handler that
\* changes the ride selection without choosing a train itself, and for
\* setting the ride store to any entry of the ride list.
C2_RideChangeCascades ==
    [][ /\ (vm'.selectedRide # vm.selectedRide /\ last'.op # "select")
            => RideChangeProcessed(vm, vm', world')
        /\ \A i \in 1..Len(vm.rides) :
              RideChangeProcessed(vm,
                  setSelectedRide(vm, world, << vm.rides[i], i - 1 >>), world)
      ]_vars

\* The first ride was demolished while selected: the remaining ride is
\* selected and the second train keeps its index.
C2_RideChanged ==
    /\ last.op = "ridedemolish"
    /\ last.args[1] = 0
    /\ vm.onPlayerAction # NULL
    /\ world.park = << 2 >>
    /\ vm.selectedRide = << 2, 0 >>
    /\ vm.selectedTrain # NULL /\ vm.selectedTrain[2] = 1

-----------------------------------------------------------------------------
(* The host subscriptions                                                  *)

\* C7: after any sequence of _open and _close calls, 'action.execute' and
\* 'interval.tick' each have exactly one live subscription when the last of
\* them was _open and none when it was _close or neither was called; a
\* second _open in a row adds no subscription.
C7_SubscriptionCount ==
    LET n == IF lifecycle = "open" THEN 1 ELSE 0
    IN  /\ host.action = n
        /\ host.tick = n
        /\ (vm.onPlayerAction # NULL) = (n = 1)
        /\ (vm.onGameTick # NULL) = (n = 1)

\* _open was called on an open view-model.
C7_OpenedTwice ==
    /\ last.op = "open"
    /\ last.args = << 1 >>
    /\ host.action = 1
    /\ host.tick = 1

-----------------------------------------------------------------------------
(* Editing the selected vehicle                                            *)

\* The setter a control passes together with the given filter.
SetterOf(filter) == (CHOOSE s \in Setters : s[2] = filter)[1]

\* C3: _modifyVehicle with a vehicle selected invokes the setter exactly
\* once, with the value given: for the single span (selected vehicle id, 1)
\* when the synchronize flag is off, and for the computed copy targets, which
\* are the target resolver's result for the configured option and the current
\* selection, when the flag is on.
C3_ModifyInvokesOnce ==
    [][ (last'.op = "modifyVehicle" /\ vm.selectedVehicle # NULL) =>
          /\ Len(calls') = 1
          /\ calls'[1].action = SetterOf(last'.args[1])
          /\ calls'[1].value = last'.args[2]
          /\ IF vm.synchronizeTargets
             THEN /\ calls'[1].targets = vm.copyTargets
                  /\ vm.copyTargets =
                        getTargets(vm.copyTargetOption,
                                   IF vm.selectedRide = NULL THEN << >> ELSE vm.trains,
                                   vm.selectedTrain, vm.selectedVehicle)
             ELSE calls'[1].targets = << << vm.selectedVehicle[1], 1 >> >>
      ]_vars

\* A synchronized edit went to more than one target.
C3_FannedOut ==
    /\ last.op = "modifyVehicle"
    /\ vm.synchronizeTargets
    /\ vm.selectedVehicle # NULL
    /\ Len(calls) = 1
    /\ Len(calls[1].targets) >= 2

\* C4: _modifyVehicle while no vehicle is selected never invokes the setter
\* and leaves every store as it was, whatever the synchronize flag is.
C4_ModifyWithoutSelection ==
    [][ (last'.op = "modifyVehicle" /\ vm.selectedVehicle = NULL) =>
          /\ calls' = << >>
          /\ vm' = vm
      ]_vars

\* An edit was attempted with synchronize on and nothing selected.
C4_IgnoredWhileSynchronized ==
    /\ last.op = "modifyVehicle"
    /\ vm.selectedVehicle = NULL
    /\ vm.synchronizeTargets
    /\ calls = << >>

\* The masks an edit is compared under: none, each single filter, and all.
ComparedMasks == { 0, Pow2(NumFilters) - 1 } \cup CopyFilterBits

-----------------------------------------------------------------------------
(* The copy filters                                                        *)

\* Whether the bit with value b is set in the mask.
HasBit(mask, b) == ((mask \div b) % 2) = 1

\* C5: _setFilter(bit, enabled) makes exactly that bit of the mask equal to
\* enabled and leaves every other bit as it was; repeating the call changes
\* nothing, the call and a call that flips another bit give the same mask in
\* either order, and once the call has enabled A, disabling A after enabling
\* B leaves B set.
C5_SetFilterOneBit ==
    [][ last'.op = "setFilter" =>
          LET bit == last'.args[1]
              enabled == last'.args[2] = 1
              before == vm.copyFilters
              after == vm'.copyFilters
          IN  /\ HasBit(after, bit) = enabled
              /\ \A b \in CopyFilterBits \ { bit } : HasBit(after, b) = HasBit(before, b)
              /\ after \in 0..(Pow2(NumFilters) - 1)
              /\ vm' = [ vm EXCEPT !.copyFilters = after ]
              /\ setFilter(vm', bit, enabled) = vm'
              /\ \A b \in CopyFilterBits \ { bit } :
                    LET t == ~HasBit(before, b)
                    IN  toggled(after, b, t) = toggled(toggled(before, b, t), bit, enabled)
              /\ enabled =>
                    \A b \in CopyFilterBits \ { bit } :
                        HasBit(toggled(toggled(after, b, TRUE), bit, FALSE), b)
      ]_vars

\* A filter was disabled while other filters stay enabled.
C5_OneCleared ==
    /\ last.op = "setFilter"
    /\ last.args = << 2, 0 >>
    /\ ~HasBit(vm.copyFilters, 2)
    /\ HasBit(vm.copyFilters, 1)
    /\ HasBit(vm.copyFilters, 4)

-----------------------------------------------------------------------------
(* The field mirror                                                        *)

\* The identity and appearance fields of the mirror.
IdentityFields(m) ==
    << m.type, m.seats, m.poweredAcceleration, m.poweredMaxSpeed,
       m.primaryColour, m.secondaryColour, m.tertiaryColour >>

\* The identity and appearance fields as the entity of car c has them.
IdentityOf(w, c, types) ==
    LET car == Car(w, c)
        typeIdx == findIndex(types, car.rideObject)
    IN  << IF typeIdx = -1 THEN NULL ELSE << types[typeIdx + 1], typeIdx >>,
           car.numSeats, car.poweredAcceleration, car.poweredMaxSpeed,
           car.colours.body, car.colours.trim, car.colours.tertiary >>

\* The dynamic fields of the mirror that do not need a train.
DynamicFields(m) == << m.variant, m.mass, m.trackProgress, m.x, m.y, m.z >>

\* The same fields as the entity of car c has them.
DynamicOf(w, c) ==
    LET car == Car(w, c)
    IN  << car.vehicleObject, car.mass, car.trackProgress, car.x, car.y, car.z >>

\* The moving-state and spacing of the mirror are those of the selected
\* vehicle in the selected train.
TrainFieldsCurrent(m, w) ==
    LET train == m.selectedTrain[1]
        vehicle == m.selectedVehicle
    IN  /\ m.isMoving = isMoving(Car(w, train[1]).status)
        /\ m.spacing = getSpacingToPrecedingVehicle(w, train, Car(w, vehicle[1]), vehicle[2])

\* The mirror without its dynamic fields.
WithoutDynamic(m) ==
    [ m EXCEPT !.variant = 0, !.mass = 0, !.trackProgress = 0, !.x = 0, !.y = 0,
               !.z = 0, !.isMoving = FALSE, !.spacing = NULL ]

\* C8: a game tick while a vehicle is selected overwrites the dynamic fields
\* (variant, mass, track progress, x, y, z, and with a train selected the
\* moving-state and the spacing) with the entity's current values and leaves
\* the identity and appearance fields, and everything else, as they were; a
\* tick while no vehicle is selected changes nothing.
C8_TickPullsDynamicOnly ==
    [][ last'.op = "tick" =>
          IF vm.selectedVehicle = NULL THEN vm' = vm
          ELSE /\ DynamicFields(vm') = DynamicOf(world, vm.selectedVehicle[1])
               /\ IF vm.selectedTrain # NULL
                  THEN TrainFieldsCurrent(vm', world)
                  ELSE vm'.isMoving = vm.isMoving /\ vm'.spacing = vm.spacing
               /\ IdentityFields(vm') = IdentityFields(vm)
               /\ WithoutDynamic(vm') = WithoutDynamic(vm)
      ]_vars

\* After a tick the dynamic fields are current while the seat count and the
\* body colour are still those from before the vehicles were repainted.
C8_IdentityLeftStale ==
    /\ last.op = "tick"
    /\ vm.selectedVehicle # NULL
    /\ DynamicFields(vm) = DynamicOf(world, vm.selectedVehicle[1])
    /\ vm.mass # 0
    /\ vm.seats # Car(world, vm.selectedVehicle[1]).numSeats
    /\ vm.primaryColour # Car(world, vm.selectedVehicle[1]).colours.body

\* Every mirrored field equals the value of the selected vehicle's entity.
Mirrors(m, w) ==
    /\ IdentityFields(m) = IdentityOf(w, m.selectedVehicle[1], m.rideTypes)
    /\ DynamicFields(m) = DynamicOf(w, m.selectedVehicle[1])
    /\ m.selectedTrain # NULL
    /\ TrainFieldsCurrent(m, w)

\* C9 as first stated: every change of the vehicle selection to a non-null
\* vehicle, open or closed, is followed by a mirror whose every field equals the selected entity's value.
C9_EveryChangePulls ==
    [][ (vm'.selectedVehicle # vm.selectedVehicle /\ vm'.selectedVehicle # NULL)
            => Mirrors(vm', world')
      ]_vars

\* C9: on every change of the vehicle selection to a non-null vehicle while
\* the view-model is open, the full field set is pulled, so that every
\* mirrored field equals the newly selected entity's value afterwards; a
\* change while it is closed pulls nothing and leaves the mirrored fields as
\* they were.
C9_ChangeWhileOpenPulls ==
    [][ (vm'.selectedVehicle # vm.selectedVehicle /\ vm'.selectedVehicle # NULL) =>
          IF vm'.isOpen
          THEN Mirrors(vm', world')
          ELSE /\ IdentityFields(vm') = IdentityFields(vm)
               /\ DynamicFields(vm') = DynamicFields(vm)
               /\ vm'.isMoving = vm.isMoving
               /\ vm'.spacing = vm.spacing
      ]_vars

\* Another vehicle was selected in the open window after the simulation and
\* a repaint changed the cars.
C9_PulledOnChange ==
    /\ last.op \in { "select", "selectVehicle" }
    /\ last.args[1] = 1
    /\ vm.isOpen
    /\ vm.selectedVehicle # NULL
    /\ world.dyn # 0
    /\ world.paint # 0
    /\ Mirrors(vm, world)

\* C10: in every state the spacing is null when nothing is selected, when the
\* selected vehicle is the first of its train, and when the position of the
\* preceding vehicle cannot be resolved.
C10_SpacingUnavailable ==
    (\/ vm.selectedVehicle = NULL
     \/ vm.selectedTrain = NULL
     \/ vm.selectedVehicle[2] = 0
     \/ getSpacingToPrecedingVehicle(world, vm.selectedTrain[1],
            Car(world, vm.selectedVehicle[1]), vm.selectedVehicle[2]) = NULL)
        => vm.spacing = NULL

-----------------------------------------------------------------------------
(* Position editing                                                        *)

\* The statuses in which a vehicle counts as moving.
MovingStatuses ==
    { "arriving", "crashing", "departing", "moving_to_end_of_station",
      "travelling_boat", "travelling_cable_lift", "travelling_dodgems",
      "travelling" }

\* The step pulled the mirror: a tick or a refresh of the selected vehicle,
\* or a change of the vehicle selection in the open window.
Pulled ==
    /\ vm'.selectedVehicle # NULL
    /\ \/ last'.op = "tick"
       \/ last'.op = "refreshVehicle" /\ last'.args = << 1 >> /\ vm'.isOpen
       \/ vm'.selectedVehicle # vm.selectedVehicle /\ vm'.isOpen

\* C11: after every mirror pull, position editing is disabled if and only
\* if no vehicle is selected or the selected vehicle is moving, its moving
\* being read from the status of the first car of the selected train; with
\* no vehicle selected it is disabled in every state.
C11_PositionDisabledIffMoving ==
    [][ /\ vm'.selectedVehicle = NULL => isPositionDisabled(vm')
        /\ Pulled =>
              (isPositionDisabled(vm')
                 <=> Car(world', vm'.selectedTrain[1][1]).status \in MovingStatuses)
      ]_vars

\* After a tick the position is locked for a second car that is itself
\* stopping while the first car of its train is travelling.
C11_LockedByFirstCar ==
    /\ last.op = "tick"
    /\ vm.selectedVehicle # NULL
    /\ vm.selectedVehicle[2] = 1
    /\ Car(world, vm.selectedVehicle[1]).status = "stopping"
    /\ Car(world, vm.selectedTrain[1][1]).status = "travelling"
    /\ isPositionDisabled(vm)

-----------------------------------------------------------------------------
(* The mirror when the selection is lost                                   *)

\* The mirrored fields as the field initialisers of the class leave them.
MirrorDefaults ==
    [ type |-> NULL, variant |-> 0, seats |-> 0, mass |-> 0,
      poweredAcceleration |-> 0, poweredMaxSpeed |-> 0, trackProgress |-> 0,
      spacing |-> << 0 >>, x |-> 0, y |-> 0, z |-> 0,
      primaryColour |-> 0, secondaryColour |-> 0, tertiaryColour |-> 0 ]

\* The mirrored fields of the view-model.
MirrorOf(m) ==
    [ type |-> m.type, variant |-> m.variant, seats |-> m.seats, mass |-> m.mass,
      poweredAcceleration |-> m.poweredAcceleration,
      poweredMaxSpeed |-> m.poweredMaxSpeed, trackProgress |-> m.trackProgress,
      spacing |-> m.spacing, x |-> m.x, y |-> m.y, z |-> m.z,
      primaryColour |-> m.primaryColour, secondaryColour |-> m.secondaryColour,
      tertiaryColour |-> m.tertiaryColour ]

\* C12: when the vehicle selection becomes null, every mirrored field is
\* reset to its construction default.
C12_ResetOnDeselect ==
    [][ (vm.selectedVehicle # NULL /\ vm'.selectedVehicle = NULL)
            => MirrorOf(vm') = MirrorDefaults
      ]_vars


-----------------------------------------------------------------------------
(* Pasting from an empty clipboard                                         *)

\* The snapshots the last handler passed to a paste callback.
PastedSnapshots(cs) == { cs[i][2] : i \in 1..Len(cs) }

\* C13: a paste while the clipboard is empty is a no-op: it calls no paste
\* handler and changes no vehicle; whenever a paste handler is called, it is
\* called with the snapshot the clipboard holds, never with null; in either
\* window, whatever copy clicks, closes and re-opens came before.
C13_PasteEmptyIsNoOp ==
    [][ /\ (last'.op = "clickPaste" /\ editor.copiedVehicleSettings = NULL)
              => (calls' = << >> /\ world' = world /\ vm' = vm /\ editor' = editor)
        /\ last'.op = "clickPaste"
              => PastedSnapshots(calls') \subseteq ({ editor.copiedVehicleSettings } \ { NULL })
        /\ last'.op = "paste"
              => /\ vm.clipboard # NULL
                 /\ PastedSnapshots(calls') \subseteq { vm.clipboard }
                 /\ world' = world ]_vars

\* The paste handler ran on an empty clipboard with a vehicle selected.
C13_PastedNothing ==
    /\ last.op = "clickPaste"
    /\ editor.copiedVehicleSettings = NULL
    /\ editor.widgets # NULL
    /\ vm.selectedVehicle # NULL
    /\ calls = << >>

-----------------------------------------------------------------------------
(* What a copy leaves in the clipboard                                     *)

\* The clipboards that hold one snapshot of a car of the park, or nothing.
OneSnapshotOrNone(w) ==
    { NULL } \cup { << getVehicleSettings(Car(w, c)) >> : c \in WorldCars(w) }

\* C14 as first stated, for the copy button of the editor window: a copy
\* performed while the clipboard holds a snapshot replaces it with the snapshot
\* of the currently selected vehicle.
C14_CopyReplaces ==
    [][ (last'.op = "clickCopy" /\ editor.copiedVehicleSettings # NULL)
            => editor'.copiedVehicleSettings = SelectedSettings(vm, world) ]_vars

\* C14: the clipboard holds at most one snapshot; a click on the copy button
\* while the clipboard holds a snapshot empties it (the button is a toggle),
\* and a click while it is empty stores the snapshot of the currently selected
\* vehicle, or nothing when no vehicle is selected; the earlier snapshot is
\* neither merged nor kept.
C14_CopyToggles ==
    [][ /\ editor'.copiedVehicleSettings \in OneSnapshotOrNone(world')
        /\ vm'.clipboard \in OneSnapshotOrNone(world')
        /\ last'.op = "clickCopy"
              => editor'.copiedVehicleSettings =
                    IF editor.copiedVehicleSettings # NULL THEN NULL
                    ELSE SelectedSettings(vm, world)
        /\ last'.op = "copy"
              => vm'.clipboard =
                    IF vm.clipboard # NULL THEN NULL
                    ELSE SelectedSettings(vm, world) ]_vars

\* A click on the copy button emptied a clipboard that held a snapshot, with
\* a vehicle selected whose snapshot a copy would have taken.
C14_SecondClickEmptied ==
    /\ last.op = "clickCopy"
    /\ editor.copiedVehicleSettings = NULL
    /\ vm.selectedVehicle # NULL

-----------------------------------------------------------------------------
(* The buttons show the clipboard                                          *)

\* C15: while a window is open, its copy button is shown pressed exactly when
\* the clipboard holds a snapshot, and its paste button is disabled when the
\* clipboard is empty: after any copy clicks, also one that yields no
\* snapshot, and after the window is closed and created again.
C15_ButtonsShowClipboard ==
    /\ editor.widgets # NULL =>
          /\ editor.widgets[1].copyPressed <=> editor.copiedVehicleSettings # NULL
          /\ editor.copiedVehicleSettings = NULL => editor.widgets[1].pasteDisabled
    /\ vm.isOpen =>
          /\ copyIsPressed(vm) <=> vm.clipboard # NULL
          /\ vm.clipboard = NULL => pasteIsDisabled(vm)

\* A copy click that yielded no snapshot left the copy button released and
\* the paste button disabled.
C15_CopiedNothing ==
    /\ last.op = "clickCopy"
    /\ vm.selectedVehicle = NULL
    /\ editor.widgets # NULL
    /\ editor.window
    /\ editor.copiedVehicleSettings = NULL
    /\ ~editor.widgets[1].copyPressed
    /\ editor.widgets[1].pasteDisabled

-----------------------------------------------------------------------------
(* The action notifications that are ignored, and the ride list refresh    *)

\* The action kinds _onPlayerActionExecuted acts on.
HandledKinds == { "ridecreate", "ridedemolish", "ridesetname", "ridesetstatus" }

\* C16: a delivered action notification that is client-only, or of a kind
\* other than ridecreate, ridedemolish, ridesetname and ridesetstatus, changes
\* nothing of the view-model; a delivered ridecreate, ridedemolish or
\* ridesetname that is not client-only replaces the cached ride list by the
\* park's current rides and resolves the ride selection again by the
\* list-replacement rule.
C16_NotificationsIgnoredOrRefresh ==
    [][ /\ (last'.op \in ActionKinds
              /\ (last'.args[1] = 1 \/ last'.op \notin HandledKinds))
              => vm' = vm
        /\ (last'.op \in { "ridecreate", "ridedemolish", "ridesetname" }
              /\ last'.args[1] = 0 /\ vm.onPlayerAction # NULL)
              => /\ vm'.rides = getAllRides(world')
                 /\ RuleYields(vm.selectedRide, vm'.rides, vm'.selectedRide) ]_vars

\* A client-only ridesetname was delivered while the cached train list of the
\* selected ride was behind the park's: the list was left as it was.
C16_QueryIgnored ==
    /\ last.op = "ridesetname"
    /\ last.args[1] = 1
    /\ vm.onPlayerAction # NULL
    /\ vm.selectedRide # NULL
    /\ vm.trains # rideTrains(world, vm.selectedRide[1])

-----------------------------------------------------------------------------
(* The preferences round-trip                                              *)

\* C17: each preference round-trips through the shared storage: what is read
\* when the plugin is loaded again is the value last chosen in the options
\* tab, for the colour scheme and for the sticky flag.
C17_PreferencesRoundTrip ==
    [][ last'.op = "load" =>
          /\ prefs'.theme = prefs.theme
          /\ prefs'.stickySideWindow = prefs.stickySideWindow ]_vars

-----------------------------------------------------------------------------
(* The amount Apply passes on                                              *)

\* C18: whatever selections and edits of the amount spinner came before, the
\* amount Apply passes to the target resolver is at most the number of
\* vehicles from the selected vehicle to the end of its train (the length of
\* the train minus the selected index).
C18_AmountWithinTrain ==
    last.op = "apply" =>
        last.args[1] <= Len(vm.vehicles) - vm.selectedVehicle[2]

-----------------------------------------------------------------------------
(* The rating and build month setters                                      *)

\* The field of the ride each number control edits.
EditedField(control) ==
    CASE control = "Excitement" -> "excitement"
      [] control = "Intensity" -> "intensity"
      [] control = "Nausea" -> "nausea"
      [] control = "Build month" -> "buildDate"

\* C19: for a player with the ride_properties permission and every value v,
\* setExcitementRating, setIntensityRating and setNauseaRating leave the
\* ride's rating equal to v, whatever an earlier call had stored (the last
\* write wins), and setBuildMonth stores v likewise, negative values
\* included; nothing else of the ride changes.
C19_RatingSetToValue ==
    [][ (last'.op = "modifyRide" /\ last'.args[1] \in NumberControls
            /\ rideEdit.ride # NULL /\ rideEdit.permission)
          => /\ rideEdit'[EditedField(last'.args[1])] = last'.args[2]
             /\ \A f \in (DOMAIN rideEdit) \ { EditedField(last'.args[1]) } :
                    rideEdit'[f] = rideEdit[f] ]_vars

\* A negative build month was stored over an earlier value while the
\* ratings kept theirs.
C19_NegativeMonthStored ==
    /\ last.op = "modifyRide"
    /\ last.args = << "Build month", -66 >>
    /\ rideEdit.ride # NULL
    /\ rideEdit.permission
    /\ rideEdit.buildDate = -66
    /\ rideEdit.excitement = 567

-----------------------------------------------------------------------------
(* The lifecycle flag setters                                              *)

\* The lifecycle flag each checkbox edits, and whether ticking it sets it.
EditedFlag(control) ==
    CASE control = "Freeze rating calculation" -> << "FixedRatings", TRUE >>
      [] control = "Custom design" -> << "NotCustomDesign", FALSE >>
      [] control = "Indestructable" -> << "Indestructable", TRUE >>

\* C20: each lifecycle flag setter changes its own flag only, and leaves it
\* as its last call says: after setFrozenRatings(ride, b) FixedRatings is set
\* iff b, after setIndestructable(ride, b) Indestructable is set iff b, after
\* setCustomDesign(ride, b) NotCustomDesign is set iff not b, whatever the
\* flag was before (true then false, or false then true).
C20_FlagMatchesLastCall ==
    [][ (last'.op = "modifyRide" /\ last'.args[1] \in FlagControls
            /\ rideEdit.ride # NULL /\ rideEdit.permission)
          => LET flag == EditedFlag(last'.args[1])[1]
                 sets == EditedFlag(last'.args[1])[2]
             IN  /\ flag \in rideEdit'.lifecycleFlags <=> (last'.args[2] = sets)
                 /\ rideEdit'.lifecycleFlags \ { flag } = rideEdit.lifecycleFlags \ { flag }
                 /\ \A f \in (DOMAIN rideEdit) \ { "lifecycleFlags" } :
                        rideEdit'[f] = rideEdit[f] ]_vars

\* 'Custom design' was ticked on a ride that is frozen and indestructable:
\* NotCustomDesign is cleared, the other two flags are still set.
C20_CustomDesignTicked ==
    /\ last.op = "modifyRide"
    /\ last.args = << "Custom design", TRUE >>
    /\ rideEdit.ride # NULL
    /\ rideEdit.permission
    /\ rideEdit.lifecycleFlags = { "FixedRatings", "Indestructable" }

-----------------------------------------------------------------------------
(* The adjustment onChange receives                                        *)

\* C21: every increment or decrement on an enabled spinner triggers onChange,
\* and the adjustment onChange receives is the change that was applied to the
\* value: the value after minus the value before; also at the bounds in
\* clamp and wrap mode and when the set was rejected.
C21_AdjustmentIsAppliedChange ==
    [][ (last'.op = "step" /\ ~spinner.isDisabled)
          => /\ Len(calls') = 1
             /\ calls'[1][2] = spinner'.value
             /\ spinner'.value - spinner.value = calls'[1][3] ]_vars

-----------------------------------------------------------------------------
(* Where goTo leaves the viewport                                          *)

\* C22: goTo(position) leaves the viewport showing the given position, from
\* every state of the component, also when it was following an entity.
C22_GoToShowsPosition ==
    [][ last'.op = "goTo" => viewport'.at = last'.args[1] ]_vars

-----------------------------------------------------------------------------
(* The viewport's tick subscription                                        *)

\* C29: after any follow, goTo, stop and tick, the viewport holds at most one
\* live 'interval.tick' subscription, and holds one exactly when it is active
\* and follows an entity (its entity id is not -1); a repeated follow adds no
\* second subscription and stop ends with none.
C29_OneSubscriptionIffFollowing ==
    /\ viewport.live \in { 0, 1 }
    /\ viewport.live = 1 <=> (viewport.isActive /\ viewport.entityId # -1)
    /\ viewport.updater # NULL <=> viewport.live = 1
    /\ last.op = "stop" => viewport.live = 0
    /\ last.op = "follow" => viewport.live = (IF last.args[1] = -1 THEN 0 ELSE 1)

\* A tick of the one subscription moved the viewport along with the entity
\* it follows.
C29_FollowingOnTick ==
    /\ last.op = "viewportTick"
    /\ viewport.live = 1
    /\ viewport.entityId \in WorldCars(world)
    /\ world.dyn # 0
    /\ viewport.at = entityPosition(world, viewport.entityId)[1]

-----------------------------------------------------------------------------
(* show() and the open window                                              *)

\* C23: show() creates the editor window when none is open and otherwise
\* brings the open one to front: after any show() and closes of the window,
\* a show() leaves the editor window open (show, close, show creates it
\* again).
C23_ShowLeavesWindowOpen ==
    [][ last'.op = "show" => editor'.widgets # NULL ]_vars

-----------------------------------------------------------------------------
(* The bounds of the spinner                                               *)

-----------------------------------------------------------------------------
(* The selection hierarchy                                                 *)

\* A selection [entity, index] that is null or points into the list at its
\* own entity.
SelectionWithin(selection, items) ==
    selection # NULL =>
        /\ 0 <= selection[2]
        /\ selection[2] < Len(items)
        /\ selection[1] = items[selection[2] + 1]

\* C25: whenever no callback is running, a selected vehicle implies a
\* selected train and a selected train implies a selected ride; every
\* selection's index lies within its current parent list (rides, trains,
\* vehicles) and its entity is that list's item at the index.
C25_SelectionHierarchy ==
    /\ vm.selectedVehicle # NULL => vm.selectedTrain # NULL
    /\ vm.selectedTrain # NULL => vm.selectedRide # NULL
    /\ SelectionWithin(vm.selectedRide, vm.rides)
    /\ SelectionWithin(vm.selectedTrain, vm.trains)
    /\ SelectionWithin(vm.selectedVehicle, vm.vehicles)

\* A ride was demolished while the second ride, its second train and a
\* later vehicle were selected: the selections moved with the lists.
C25_ReselectedAfterDemolish ==
    /\ last.op = "ridedemolish"
    /\ last.args[1] = 0
    /\ vm.onPlayerAction # NULL
    /\ vm.selectedRide # NULL
    /\ vm.selectedTrain # NULL
    /\ vm.selectedTrain[2] > 0
    /\ vm.selectedVehicle # NULL
    /\ vm.selectedVehicle[2] > 0

-----------------------------------------------------------------------------
(* _select(car)                                                            *)

\* C26: _select(car) changes no selection when the car's ride is not in the
\* cached ride list.  When the ride is found and one of its trains holds
\* the car, the ride, that train and the car become selected, each with its
\* index.  When the ride is found and no train holds the car, the ride
\* becomes selected and the train and vehicle follow the list-replacement
\* rule.
C26_SelectCar ==
    [][ last'.op = "select" =>
          LET carId == last'.args[2]
              rideId == CarRide(carId)
              rideIndex == findIndex(vm.rides, rideId)
              trainList == rideTrains(world, rideId)
              holders == { t \in 1..Len(trainList) :
                             \E v \in 1..Len(trainList[t]) : trainList[t][v] = carId }
          IN  IF rideIndex = -1
              THEN /\ vm'.selectedRide = vm.selectedRide
                   /\ vm'.selectedTrain = vm.selectedTrain
                   /\ vm'.selectedVehicle = vm.selectedVehicle
              ELSE /\ vm'.selectedRide = << rideId, rideIndex >>
                   /\ IF holders # {}
                      THEN \E t \in holders :
                             /\ vm'.selectedTrain = << trainList[t], t - 1 >>
                             /\ vm'.selectedVehicle
                                  = << carId, findIndex(trainList[t], carId) >>
                      ELSE /\ vm'.selectedTrain
                                = updateSelectionOrNull(vm.selectedTrain, trainList)
                           /\ vm'.selectedVehicle
                                = updateSelectionOrNull(vm.selectedVehicle,
                                    IF vm'.selectedTrain # NULL
                                    THEN trainVehicles(vm'.selectedTrain[1])
                                    ELSE << >>)
      ]_vars

\* A car that is neither the first of its train nor in the first train of
\* its ride was selected.
C26_SelectedLaterCar ==
    /\ last.op = "select"
    /\ last.args[1] = 1
    /\ vm.selectedVehicle # NULL
    /\ vm.selectedVehicle[1] = last.args[2]
    /\ vm.selectedVehicle[2] > 0
    /\ vm.selectedTrain[2] > 0

-----------------------------------------------------------------------------
(* ridesetstatus                                                           *)

\* C27: on a ridesetstatus that is not client-only for the selected ride,
\* when the ride still exists and no train is selected the train list
\* becomes the ride's freshly spawned trains, so that a train and a vehicle
\* are selected when there are any; when the ride no longer exists or the
\* selected train fails to refresh the train list becomes empty and no
\* train and no vehicle is selected.  A ridesetstatus for a ride that is
\* not selected or not in the cached list changes no selection.
C27_RideSetStatus ==
    [][ (last'.op = "ridesetstatus" /\ last'.args[1] = 0 /\ vm.onPlayerAction # NULL) =>
          LET rideId == last'.args[2]
              rideExists == rideRefresh(world', rideId)
          IN  IF /\ findIndex(vm.rides, rideId) # -1
                 /\ vm.selectedRide # NULL
                 /\ vm.selectedRide[1] = rideId
              THEN /\ (rideExists /\ vm.selectedTrain = NULL)
                       => /\ vm'.trains = rideTrains(world', rideId)
                          /\ Len(vm'.trains) > 0
                               => /\ vm'.selectedTrain # NULL
                                  /\ vm'.selectedVehicle # NULL
                   /\ (~rideExists
                         \/ (vm.selectedTrain # NULL
                               /\ ~trainRefresh(world', vm.selectedTrain[1])))
                       => /\ vm'.trains = << >>
                          /\ vm'.selectedTrain = NULL
                          /\ vm'.selectedVehicle = NULL
              ELSE /\ vm'.selectedRide = vm.selectedRide
                   /\ vm'.selectedTrain = vm.selectedTrain
                   /\ vm'.selectedVehicle = vm.selectedVehicle
      ]_vars

\* The selected ride changed status and its selected train was gone: the
\* train list was emptied although the ride has trains.
C27_TrainListEmptied ==
    /\ last.op = "ridesetstatus"
    /\ last.args[1] = 0
    /\ vm.onPlayerAction # NULL
    /\ vm.selectedRide # NULL
    /\ vm.selectedRide[1] = last.args[2]
    /\ vm.trains = << >>
    /\ world.numTrains[last.args[2]] > 0

-----------------------------------------------------------------------------
(* What _close resets                                                      *)

\* C28: _close leaves the multiplier index at 0 and the synchronize flag
\* off, and the ride, train and vehicle selection, the copy-filter mask, the
\* copy-target option and the clipboard are after _close what they were
\* before it.
C28_CloseResetsTwoStores ==
    [][ last'.op = "close" =>
          /\ vm'.multiplierIndex = 0
          /\ ~vm'.synchronizeTargets
          /\ vm'.selectedRide = vm.selectedRide
          /\ vm'.selectedTrain = vm.selectedTrain
          /\ vm'.selectedVehicle = vm.selectedVehicle
          /\ vm'.copyFilters = vm.copyFilters
          /\ vm'.copyTargetOption = vm.copyTargetOption
          /\ vm'.clipboard = vm.clipboard
      ]_vars

\* The window was closed at multiplier x10 or x100 with a vehicle selected,
\* a snapshot in the clipboard, a filter ticked and a copy option chosen.
C28_ClosedWithSettings ==
    /\ last.op = "close"
    /\ last.args[1] > 0
    /\ vm.multiplierIndex = 0
    /\ vm.selectedVehicle # NULL
    /\ vm.clipboard # NULL
    /\ vm.copyFilters # 0
    /\ vm.copyTargetOption # 0
=============================================================================
